---- MODULE Spec2Model ----
(***************************************************************************)
(* Model of the texture-draw batching core of src/draw_textures.c:         *)
(* draw_textures_item (the batch accumulator) and draw_textures_flush      *)
(* (the flush/render stage), over the file's static state.                 *)
(*                                                                         *)
(* Floats (opacity, colour components) are modelled by integers that stand *)
(* for exactly representable values; the code only compares and multiplies *)
(* them.  Enumerators declared in headers outside src/ (composite ops,     *)
(* filter types, shader ids, GL constants) are modelled by their names.    *)
(***************************************************************************)
EXTENDS Integers, Sequences, FiniteSets, TLC

\* ------------------------------------------------------------------------
\* Bounds and program constants
\* ------------------------------------------------------------------------

\* Number of quads (pairs of bufobj slots) the modelled buffer has room for.
MaxQuads == 4

\* draw_textures.c:29 defines MAX_BUFFER_SIZE as 1024 bufobj slots (room for
\* 512 quads).  The model keeps it an even number of slots, two per quad,
\* and scales the number of quads down to MaxQuads.
MAX_BUFFER_SIZE == 2 * MaxQuads

\* ------------------------------------------------------------------------
\* Input domains
\* ------------------------------------------------------------------------

\* GL texture ids handed in by the caller.
Names == {1, 2}

\* Global opacities: 0 is fully transparent, 1 is the value lastOpacity is
\* initialised with.
Opacities == {0, 1}

\* The composite_op enumerators that draw_textures_flush switches on.
source_atop == "source_atop"
source_in == "source_in"
source_out == "source_out"
source_over == "source_over"
destination_atop == "destination_atop"
destination_in == "destination_in"
destination_out == "destination_out"
destination_over == "destination_over"
lighter == "lighter"
x_or == "x_or"
copy == "copy"

\* The composite operations the modelled caller submits.
CompositeOps == {source_over, destination_in}

FILTER_NONE == "FILTER_NONE"
FILTER_LINEAR_ADD == "FILTER_LINEAR_ADD"
FILTER_MULTIPLY == "FILTER_MULTIPLY"

\* The filter types the modelled caller submits.
FilterTypes == {FILTER_NONE, FILTER_MULTIPLY}

PRIMARY_SHADER == "PRIMARY_SHADER"
LINEAR_ADD_SHADER == "LINEAR_ADD_SHADER"

rgba(r, g, b, a) == [r |-> r, g |-> g, b |-> b, a |-> a]

\* Filter colours: the initial colour and one colour per single component
\* that differs from it.
FilterColors ==
  {rgba(0, 0, 0, 0), rgba(1, 0, 0, 0), rgba(0, 1, 0, 0), rgba(0, 0, 1, 0),
   rgba(0, 0, 0, 1)}

\* Clip rectangles, by the two fields draw_textures_item reads.
Clips ==
  {[width |-> 1, height |-> 1], [width |-> 0, height |-> 1],
   [width |-> 1, height |-> 0]}

\* The state tuple a request is submitted with.
StateTuple(name, opacity, composite_op, filter_color, filter_type) ==
  [name |-> name, opacity |-> opacity, composite_op |-> composite_op,
   filter_color |-> filter_color, filter_type |-> filter_type]

\* The requests the modelled caller submits: every combination of texture,
\* opacity, composite operation and filter type with the initial filter
\* colour, and every filter colour with every filter type on texture 1 at
\* opacity 1 under source_over.
Requests ==
  {t \in [name : Names, opacity : Opacities, composite_op : CompositeOps,
          filter_color : FilterColors, filter_type : FilterTypes] :
     \/ t.filter_color = rgba(0, 0, 0, 0)
     \/ (t.name = 1 /\ t.opacity = 1 /\ t.composite_op = source_over)}

\* rect_2d, by the four fields draw_textures_item and the transform read.
rect_2d(x, y, width, height) == [x |-> x, y |-> y, width |-> width, height |-> height]

\* matrix_3x3, by the six entries of an affine transform: row (m00 m01 m02)
\* gives x, row (m10 m11 m12) gives y.
matrix_3x3(m00, m01, m02, m10, m11, m12) ==
  [m00 |-> m00, m01 |-> m01, m02 |-> m02, m10 |-> m10, m11 |-> m11, m12 |-> m12]

IdentityMatrix == matrix_3x3(1, 0, 0, 0, 1, 0)

\* The geometry a request is submitted with.  orig_width and orig_height
\* are deprecated parameters the function never reads.
Geometry(model_view, src_width, src_height, src, dest) ==
  [model_view |-> model_view, src_width |-> src_width, src_height |-> src_height,
   src |-> src, dest |-> dest]

\* The source rectangle (10, 20, 30, 40) of a 100 x 200 texture, drawn to
\* the unit square under the identity transform.
Geom0 ==
  Geometry(IdentityMatrix, 100, 200, rect_2d(10, 20, 30, 40), rect_2d(0, 0, 1, 1))

\* The geometries the modelled caller submits.
Geoms == {Geom0}

\* A quarter turn with a translation, on a 4 x 8 texture.
Geom1 ==
  Geometry(matrix_3x3(0, -1, 5, 1, 0, 2), 4, 8, rect_2d(1, 2, 2, 4),
           rect_2d(1, 2, 3, 4))

\* A shear with a translation, drawing the whole 100 x 200 texture.
Geom2 ==
  Geometry(matrix_3x3(2, 1, 0, 1, 1, -3), 100, 200, rect_2d(0, 0, 100, 200),
           rect_2d(0, 0, 2, 1))

\* Geometries that differ in transform, texture size and both rectangles.
GeomsVaried == {Geom0, Geom1, Geom2}

\* Requests for two textures, one of them also fully transparent.
GeomRequests ==
  {StateTuple(1, 1, source_over, rgba(0, 0, 0, 0), FILTER_NONE),
   StateTuple(1, 0, source_over, rgba(0, 0, 0, 0), FILTER_NONE),
   StateTuple(2, 1, source_over, rgba(0, 0, 0, 0), FILTER_NONE)}

\* The determinant of the linear part of an affine transform: non-zero for
\* a non-degenerate one.
Det(m) == m.m00 * m.m11 - m.m01 * m.m10

\* Every transform with m00, m01, m11 in -1 .. 1 and m10 in 0 .. 1,
\* translated by (1, -1).  The non-degenerate ones are the half turn, a
\* quarter turn, the reflections in both axes and in the diagonal, shears
\* and their products.
WindingTransforms ==
  {matrix_3x3(a, b, 1, c, d, -1) :
     a \in {-1, 0, 1}, b \in {-1, 0, 1}, c \in {0, 1}, d \in {-1, 0, 1}}

\* The texture a transform is drawn from: one texture per transform.
TextureOf(m) ==
  27 * (m.m00 + 1) + 9 * (m.m01 + 1) + 3 * (m.m10 + 1) + (m.m11 + 1)

\* A composite_op value that is none of the enumerators.
unrecognized_op == "unrecognized_op"

\* Every composite operation, on one texture at opacity 1 without filter.
OpsRequests ==
  {StateTuple(1, 1, op, rgba(0, 0, 0, 0), FILTER_NONE) :
     op \in {source_atop, source_in, source_out, source_over, destination_atop,
             destination_in, destination_out, destination_over, lighter, x_or,
             copy, unrecognized_op}}

\* A filter_type value (the parameter is an int) that is none of the three
\* enumerators.
FILTER_OTHER == "FILTER_OTHER"

\* Every filter type, with opacities and filter colours whose products
\* differ, on one texture under source_over.
FilterRequests ==
  {StateTuple(1, o, source_over, c, t) :
     o \in {2, 3}, c \in {rgba(2, 3, 5, 7), rgba(0, 0, 0, 0)},
     t \in {FILTER_NONE, FILTER_LINEAR_ADD, FILTER_MULTIPLY, FILTER_OTHER}}

\* The value of the int statics last_composite_op and last_filter_type at
\* start-up (0); which enumerator, if any, has value 0 is declared outside
\* src/.
IntZero == "0"

\* Placeholder for "no request recorded".
NoTuple == StateTuple(0, 0, IntZero, rgba(0, 0, 0, 0), IntZero)

\* ------------------------------------------------------------------------
\* State
\* ------------------------------------------------------------------------

VARIABLES
  lastName,            \* static int lastName
  bufSize,             \* static int bufSize
  lastOpacity,         \* static float lastOpacity
  last_composite_op,   \* static int last_composite_op
  last_filter_type,    \* static int last_filter_type
  last_filter_color,   \* static rgba last_filter_color
  buffer,              \* buffer[0 .. bufSize-1], the slots a draw call reads
  use_single_shader,   \* the external flag draw_textures_flush reads
  gl,                  \* the GL calls issued by the last operation, in order
  ev                   \* what the last operation was and what it did

prog == <<lastName, bufSize, lastOpacity, last_composite_op, last_filter_type,
          last_filter_color, buffer, use_single_shader>>

vars == <<lastName, bufSize, lastOpacity, last_composite_op, last_filter_type,
          last_filter_color, buffer, use_single_shader, gl, ev>>

\* The batch's active state tuple.
ActiveTuple ==
  StateTuple(lastName, lastOpacity, last_composite_op, last_filter_color,
             last_filter_type)

\* One bufobj: a triangle of a quad.  v holds the twelve floats of the
\* struct; tri is 1 for o and 2 for o2; req is the state tuple of the
\* draw_textures_item call that wrote it.
bufobj(req, tri, v) == [req |-> req, tri |-> tri, v |-> v]

\* ------------------------------------------------------------------------
\* draw_textures_flush
\* ------------------------------------------------------------------------

GLCall(fn, args) == [fn |-> fn, args |-> args]

\* rgba_equals: exact component-wise comparison of two colours.
rgba_equals(a, b) == a.r = b.r /\ a.g = b.g /\ a.b = b.b /\ a.a = b.a

\* A switch whose destination_over case has the Porter-Duff factors instead
\* of those of destination_atop.
BlendFactors_porterDuff(op) ==
  CASE op = source_atop -> <<"GL_DST_ALPHA", "GL_ONE_MINUS_SRC_ALPHA">>
    [] op = source_in -> <<"GL_DST_ALPHA", "GL_ZERO">>
    [] op = source_out -> <<"GL_ONE_MINUS_DST_ALPHA", "GL_ZERO">>
    [] op = source_over -> <<"GL_ONE", "GL_ONE_MINUS_SRC_ALPHA">>
    [] op = destination_atop -> <<"GL_DST_ALPHA", "GL_SRC_ALPHA">>
    [] op = destination_in -> <<"GL_ZERO", "GL_SRC_ALPHA">>
    [] op = destination_out ->
         <<"GL_ONE_MINUS_SRC_ALPHA", "GL_ONE_MINUS_SRC_ALPHA">>
    [] op = destination_over -> <<"GL_ONE_MINUS_DST_ALPHA", "GL_ONE">>
    [] OTHER -> <<"GL_ONE", "GL_ONE_MINUS_SRC_ALPHA">>

\* The switch on last_composite_op: <<sfactor, dfactor>>.
BlendFactors(op) ==
  CASE op = source_atop -> <<"GL_DST_ALPHA", "GL_ONE_MINUS_SRC_ALPHA">>
    [] op = source_in -> <<"GL_DST_ALPHA", "GL_ZERO">>
    [] op = source_out -> <<"GL_ONE_MINUS_DST_ALPHA", "GL_ZERO">>
    [] op = source_over -> <<"GL_ONE", "GL_ONE_MINUS_SRC_ALPHA">>
    [] op = destination_atop -> <<"GL_DST_ALPHA", "GL_SRC_ALPHA">>
    [] op = destination_in -> <<"GL_ZERO", "GL_SRC_ALPHA">>
    [] op = destination_out ->
         <<"GL_ONE_MINUS_SRC_ALPHA", "GL_ONE_MINUS_SRC_ALPHA">>
    [] op = destination_over -> <<"GL_DST_ALPHA", "GL_SRC_ALPHA">>
    [] OTHER -> <<"GL_ONE", "GL_ONE_MINUS_SRC_ALPHA">>

\* A shader selection that looks at the filter type even when
\* use_single_shader is set.
ShaderCalls_noSingleShader(uss, o, c, t) ==
  IF t = FILTER_NONE
  THEN <<GLCall("tealeaf_shaders_bind", <<PRIMARY_SHADER>>),
         GLCall("glUniform4f", <<"draw_color", o, o, o, o>>)>>
  ELSE IF t = FILTER_LINEAR_ADD
  THEN <<GLCall("tealeaf_shaders_bind", <<LINEAR_ADD_SHADER>>),
         GLCall("glUniform4f", <<"add_color", c.r * c.a, c.g * c.a, c.b * c.a, 0>>),
         GLCall("glUniform4f", <<"draw_color", o, o, o, o>>)>>
  ELSE IF t = FILTER_MULTIPLY
  THEN <<GLCall("tealeaf_shaders_bind", <<PRIMARY_SHADER>>),
         GLCall("glUniform4f", <<"draw_color", c.r * o, c.g * o, c.b * o, o>>)>>
  ELSE <<>>

\* The shader bind and the uniform writes of a drawing flush for a batch of
\* opacity o, filter colour c and filter type t, under single-shader flag uss.
\* A filter type that matches no branch binds nothing and writes nothing.
ShaderCalls(uss, o, c, t) ==
  IF uss
  THEN <<GLCall("tealeaf_shaders_bind", <<PRIMARY_SHADER>>),
         GLCall("glUniform4f", <<"draw_color", o, o, o, o>>)>>
  ELSE IF t = FILTER_NONE
  THEN <<GLCall("tealeaf_shaders_bind", <<PRIMARY_SHADER>>),
         GLCall("glUniform4f", <<"draw_color", o, o, o, o>>)>>
  ELSE IF t = FILTER_LINEAR_ADD
  THEN <<GLCall("tealeaf_shaders_bind", <<LINEAR_ADD_SHADER>>),
         GLCall("glUniform4f", <<"add_color", c.r * c.a, c.g * c.a, c.b * c.a, 0>>),
         GLCall("glUniform4f", <<"draw_color", o, o, o, o>>)>>
  ELSE IF t = FILTER_MULTIPLY
  THEN <<GLCall("tealeaf_shaders_bind", <<PRIMARY_SHADER>>),
         GLCall("glUniform4f", <<"draw_color", c.r * o, c.g * o, c.b * o, o>>)>>
  ELSE <<>>

\* The texture bind, the fixed sampling state and the vertex streams.
TextureCalls(name) ==
  <<GLCall("glActiveTexture", <<"GL_TEXTURE0">>),
    GLCall("glBindTexture", <<"GL_TEXTURE_2D", name>>),
    GLCall("glTexParameterf", <<"GL_TEXTURE_2D", "GL_TEXTURE_MIN_FILTER", "GL_LINEAR">>),
    GLCall("glTexParameterf", <<"GL_TEXTURE_2D", "GL_TEXTURE_MAG_FILTER", "GL_NEAREST">>),
    GLCall("glTexParameterf", <<"GL_TEXTURE_2D", "GL_TEXTURE_WRAP_S", "GL_CLAMP_TO_EDGE">>),
    GLCall("glTexParameterf", <<"GL_TEXTURE_2D", "GL_TEXTURE_WRAP_T", "GL_CLAMP_TO_EDGE">>),
    GLCall("glVertexAttribPointer", <<"vertex_coords", 2, "GL_FLOAT", "GL_FALSE", 16, "buffer+2">>),
    GLCall("glVertexAttribPointer", <<"tex_coords", 2, "GL_FLOAT", "GL_FALSE", 16, "buffer">>)>>

\* The GPU configuration a drawing flush sets up for a batch with state
\* tuple t: blend function, shader and uniforms, texture.
GpuConfig(uss, t) ==
  <<GLCall("glBlendFunc", BlendFactors(t.composite_op))>>
    \o ShaderCalls(uss, t.opacity, t.filter_color, t.filter_type)
    \o TextureCalls(t.name)

\* A drawing flush that passes the slot count as the vertex count.
DrawCalls_slotCount(uss, t, n) ==
  GpuConfig(uss, t) \o <<GLCall("glDrawArrays", <<"GL_TRIANGLES", 0, n>>)>>

\* The body of "if (lastOpacity > 0) { ... }": every GL call of a flush of
\* n filled slots under state tuple t.
DrawCalls(uss, t, n) ==
  GpuConfig(uss, t) \o <<GLCall("glDrawArrays", <<"GL_TRIANGLES", 0, 3 * n>>)>>

\* A flush that lacks the empty-buffer guard.
FlushReturnsEarly_never(n) == FALSE

\* Whether draw_textures_flush returns at once: "if (bufSize <= 0) return;".
FlushReturnsEarly(n) == n <= 0

\* An opacity test that lets a fully transparent batch through.
FlushDraws_transparent(o) == o >= 0

\* Whether draw_textures_flush draws: "if (lastOpacity > 0)".
FlushDraws(o) == o > 0

\* The GL calls draw_textures_flush issues when the last-known state is the
\* state tuple t and the buffer is as it is now.
FlushGLUnder(t) ==
  IF FlushReturnsEarly(bufSize) THEN <<>>
  ELSE IF FlushDraws(t.opacity)
       THEN DrawCalls(use_single_shader, t, bufSize)
       ELSE <<>>

\* The GL calls draw_textures_flush issues in the current state.
FlushGL == FlushGLUnder(ActiveTuple)

\* The slots the draw calls among the GL calls g read: glDrawArrays(mode,
\* first, count) reads the vertices first .. first + count - 1 of the
\* streams set on buffer, three per slot.
SlotsRead(g) ==
  LET d == {i \in 1..Len(g) : g[i].fn = "glDrawArrays"}
  IN IF d = {} THEN <<>>
     ELSE LET c == g[CHOOSE i \in d : TRUE].args
          IN SubSeq(buffer, (c[2] \div 3) + 1, (c[2] + c[3]) \div 3)

\* The slots the draw call of draw_textures_flush reads in the current
\* state, <<>> if it does not draw.
FlushDrawn == SlotsRead(FlushGL)

\* A flush that forgets the trailing "bufSize = 0".
FlushBufSize_noReset(n) == n

\* bufSize after draw_textures_flush has run on a buffer of n filled slots:
\* the trailing "bufSize = 0" is outside the opacity test.
FlushBufSize(n) == IF FlushReturnsEarly(n) THEN n ELSE 0

\* A flush that also resets the last-known state to its start-up values.
StateAfterFlush_reset(t) ==
  StateTuple(-1, 1, IntZero, rgba(0, 0, 0, 0), IntZero)

\* The last-known state after draw_textures_flush when it was t before: the
\* function assigns to bufSize only.
StateAfterFlush(t) == t

\* Explicit call of draw_textures_flush().
draw_textures_flush ==
  /\ bufSize' = FlushBufSize(bufSize)
  /\ buffer' = SubSeq(buffer, 1, FlushBufSize(bufSize))
  /\ gl' = FlushGL
  /\ ev' = [op |-> "flush", again |-> (ev.op = "flush"), req |-> NoTuple,
            was |-> NoTuple, geom |-> Geom0,
            clip |-> [width |-> 0, height |-> 0], differs |-> FALSE,
            flushes |-> 1, pre |-> bufSize, o |-> -1, drawn |-> FlushDrawn]
  /\ lastName' = StateAfterFlush(ActiveTuple).name
  /\ lastOpacity' = StateAfterFlush(ActiveTuple).opacity
  /\ last_composite_op' = StateAfterFlush(ActiveTuple).composite_op
  /\ last_filter_type' = StateAfterFlush(ActiveTuple).filter_type
  /\ last_filter_color' = StateAfterFlush(ActiveTuple).filter_color
  /\ UNCHANGED use_single_shader

\* ------------------------------------------------------------------------
\* draw_textures_item
\* ------------------------------------------------------------------------

\* A guard that tests the height only, as the code's comment words it.
ClipIsEmpty_heightOnly(clip) == clip.height = 0

\* The early return: "if (clip.height == 0 || clip.width == 0) return;".
ClipIsEmpty(clip) == clip.height = 0 \/ clip.width = 0

\* A capacity test that flushes one quad earlier still.
BufferFull_early(n) == n + 4 >= MAX_BUFFER_SIZE

\* A capacity test that flushes only when the next quad does not fit.
BufferFull_exact(n) == n + 2 > MAX_BUFFER_SIZE

\* A capacity test that compares the fill level alone.
BufferFull_late(n) == n > MAX_BUFFER_SIZE

\* The capacity disjunct of the flush condition.
BufferFull(n) == n + 2 >= MAX_BUFFER_SIZE

\* A state test that compares composite_op with the wrong static.
StateChanged_wrongField(name, opacity, composite_op, filter_color, filter_type) ==
  \/ name # lastName
  \/ lastOpacity # opacity
  \/ composite_op # last_filter_type
  \/ ~rgba_equals(last_filter_color, filter_color)
  \/ last_filter_type # filter_type

\* A state test that forgets the filter colour.
StateChanged_noColor(name, opacity, composite_op, filter_color, filter_type) ==
  \/ name # lastName
  \/ lastOpacity # opacity
  \/ composite_op # last_composite_op
  \/ last_filter_type # filter_type

\* A state test that forgets the opacity.
StateChanged_noOpacity(name, opacity, composite_op, filter_color, filter_type) ==
  \/ name # lastName
  \/ composite_op # last_composite_op
  \/ ~rgba_equals(last_filter_color, filter_color)
  \/ last_filter_type # filter_type

\* The state disjuncts of the flush condition, field by field.
StateChanged(name, opacity, composite_op, filter_color, filter_type) ==
  \/ name # lastName
  \/ lastOpacity # opacity
  \/ composite_op # last_composite_op
  \/ ~rgba_equals(last_filter_color, filter_color)
  \/ last_filter_type # filter_type

\* The whole condition of the "if" that flushes and adopts the new state.
FlushTrigger(name, opacity, composite_op, filter_color, filter_type) ==
  \/ StateChanged(name, opacity, composite_op, filter_color, filter_type)
  \/ BufferFull(bufSize)

Abs(x) == IF x < 0 THEN -x ELSE x

RECURSIVE GCD(_, _)
GCD(a, b) == IF b = 0 THEN a ELSE GCD(b, a % b)

\* The quotient n / d of two floats, as the reduced fraction <<num, den>>
\* with den > 0 (d # 0).
FloatDiv(n, d) ==
  LET g == GCD(Abs(n), Abs(d))
      sgn == IF d < 0 THEN -1 ELSE 1
  IN <<(sgn * n) \div g, (sgn * d) \div g>>

\* Lines 97 to 100: the source rectangle normalised by the texture size.
TexCoords(src, src_width, src_height) ==
  [sMin |-> FloatDiv(src.x, src_width),
   tMin |-> FloatDiv(src.y, src_height),
   sMax |-> FloatDiv(src.x + src.width, src_width),
   tMax |-> FloatDiv(src.y + src.height, src_height)]

\* matrix_3x3_multiply: the four corners of rectangle b under transform a,
\* from (x, y) clockwise in rectangle space: (x, y), (x + width, y),
\* (x + width, y + height), (x, y + height).
matrix_3x3_multiply(a, b) ==
  LET tx(x, y) == a.m00 * x + a.m01 * y + a.m02
      ty(x, y) == a.m10 * x + a.m11 * y + a.m12
  IN [x1 |-> tx(b.x, b.y), y1 |-> ty(b.x, b.y),
      x2 |-> tx(b.x + b.width, b.y), y2 |-> ty(b.x + b.width, b.y),
      x3 |-> tx(b.x + b.width, b.y + b.height),
      y3 |-> ty(b.x + b.width, b.y + b.height),
      x4 |-> tx(b.x, b.y + b.height), y4 |-> ty(b.x, b.y + b.height)]

\* A first triangle whose t coordinates are exchanged.
FirstTriangle_flippedT(tc, p) ==
  [srcX1 |-> tc.sMin, srcY1 |-> tc.tMin, destX1 |-> p.x4, destY1 |-> p.y4,
   srcX2 |-> tc.sMax, srcY2 |-> tc.tMin, destX2 |-> p.x3, destY2 |-> p.y3,
   srcX3 |-> tc.sMin, srcY3 |-> tc.tMax, destX3 |-> p.x1, destY3 |-> p.y1]

\* Lines 102 to 107 and 116 to 121: the floats written to o.
FirstTriangle(tc, p) ==
  [srcX1 |-> tc.sMin, srcY1 |-> tc.tMax, destX1 |-> p.x4, destY1 |-> p.y4,
   srcX2 |-> tc.sMax, srcY2 |-> tc.tMax, destX2 |-> p.x3, destY2 |-> p.y3,
   srcX3 |-> tc.sMin, srcY3 |-> tc.tMin, destX3 |-> p.x1, destY3 |-> p.y1]

\* A second triangle that visits its corners as (p2, p3, p1).
SecondTriangle_reversed(tc, p) ==
  [srcX1 |-> tc.sMax, srcY1 |-> tc.tMin, destX1 |-> p.x2, destY1 |-> p.y2,
   srcX2 |-> tc.sMax, srcY2 |-> tc.tMax, destX2 |-> p.x3, destY2 |-> p.y3,
   srcX3 |-> tc.sMin, srcY3 |-> tc.tMin, destX3 |-> p.x1, destY3 |-> p.y1]

\* Lines 108 to 113 and 122 to 127: the floats written to o2.
SecondTriangle(tc, p) ==
  [srcX1 |-> tc.sMax, srcY1 |-> tc.tMax, destX1 |-> p.x3, destY1 |-> p.y3,
   srcX2 |-> tc.sMax, srcY2 |-> tc.tMin, destX2 |-> p.x2, destY2 |-> p.y2,
   srcX3 |-> tc.sMin, srcY3 |-> tc.tMin, destX3 |-> p.x1, destY3 |-> p.y1]

\* An accumulator that adopts the request's state before it flushes.
StateAtFlush_adopted(req) == req

\* The last-known state the flush inside draw_textures_item runs under: the
\* call of line 82 precedes the assignments of lines 83 to 90.
StateAtFlush(req) == ActiveTuple

draw_textures_item(model_view, name, src_width, src_height, src, dest, clip, opacity, composite_op, filter_color, filter_type) ==
  LET req == StateTuple(name, opacity, composite_op, filter_color, filter_type)
      geom == Geometry(model_view, src_width, src_height, src, dest)
      tc == TexCoords(src, src_width, src_height)
      p == matrix_3x3_multiply(model_view, dest)
      trig == FlushTrigger(name, opacity, composite_op, filter_color, filter_type)
      size0 == IF trig THEN FlushBufSize(bufSize) ELSE bufSize
      size1 == size0 + 2
      o == size1 - 2
  IN IF ClipIsEmpty(clip)
     THEN /\ UNCHANGED prog
          /\ gl' = <<>>
          /\ ev' = [op |-> "item", again |-> FALSE, req |-> NoTuple,
                    was |-> NoTuple, geom |-> geom, clip |-> clip,
                    differs |-> (req # ActiveTuple), flushes |-> 0,
                    pre |-> bufSize, o |-> -1, drawn |-> <<>>]
     ELSE /\ lastName' = IF trig THEN name ELSE lastName
          /\ lastOpacity' = IF trig THEN opacity ELSE lastOpacity
          /\ last_composite_op' = IF trig THEN composite_op ELSE last_composite_op
          /\ last_filter_color' =
               IF trig
               THEN rgba(filter_color.r, filter_color.g, filter_color.b, filter_color.a)
               ELSE last_filter_color
          /\ last_filter_type' = IF trig THEN filter_type ELSE last_filter_type
          /\ bufSize' = size1
          /\ buffer' = SubSeq(buffer, 1, o)
                          \o <<bufobj(req, 1, FirstTriangle(tc, p)),
                               bufobj(req, 2, SecondTriangle(tc, p))>>
          /\ gl' = IF trig THEN FlushGLUnder(StateAtFlush(req)) ELSE <<>>
          /\ ev' = [op |-> "item", again |-> FALSE, req |-> req,
                    was |-> ActiveTuple, geom |-> geom, clip |-> clip,
                    differs |-> (req # ActiveTuple),
                    flushes |-> IF trig THEN 1 ELSE 0,
                    pre |-> bufSize, o |-> o,
                    drawn |-> IF trig
                              THEN SlotsRead(FlushGLUnder(StateAtFlush(req)))
                              ELSE <<>>]
          /\ UNCHANGED use_single_shader

\* ------------------------------------------------------------------------
\* Specification
\* ------------------------------------------------------------------------

Init ==
  /\ lastName = -1
  /\ bufSize = 0
  /\ lastOpacity = 1
  /\ last_composite_op = IntZero
  /\ last_filter_type = IntZero
  /\ last_filter_color = rgba(0, 0, 0, 0)
  /\ buffer = <<>>
  /\ use_single_shader \in BOOLEAN
  /\ gl = <<>>
  /\ ev = [op |-> "init", again |-> FALSE, req |-> NoTuple, was |-> NoTuple,
           geom |-> Geom0,
           clip |-> [width |-> 0, height |-> 0], differs |-> FALSE,
           flushes |-> 0, pre |-> 0, o |-> -1, drawn |-> <<>>]

\* A draw_textures_item call with a request of R, a geometry of G and a clip
\* of C.
ItemOf(R, G, C) ==
  \E req \in R, g \in G, clip \in C :
    draw_textures_item(g.model_view, req.name, g.src_width, g.src_height,
                       g.src, g.dest, clip, req.opacity, req.composite_op,
                       req.filter_color, req.filter_type)

Item == ItemOf(Requests, Geoms, Clips)

Flush == draw_textures_flush

Next == Item \/ Flush

Spec == Init /\ [][Next]_vars

\* The same program driven with every composite operation.
ItemOps == ItemOf(OpsRequests, Geoms, Clips)

NextOps == ItemOps \/ Flush

SpecOps == Init /\ [][NextOps]_vars

\* The same program driven with quads of different geometry.
ItemGeom == ItemOf(GeomRequests, GeomsVaried, Clips)

NextGeom == ItemGeom \/ Flush

SpecGeom == Init /\ [][NextGeom]_vars

\* The same program driven with the destination rectangle (1, 2, 3, 4) under
\* every non-degenerate transform of WindingTransforms.
ItemWinding ==
  \E m \in WindingTransforms :
    Det(m) # 0 /\
    draw_textures_item(m, TextureOf(m), 100, 200, rect_2d(10, 20, 30, 40),
                       rect_2d(1, 2, 3, 4), [width |-> 1, height |-> 1], 1,
                       source_over, rgba(0, 0, 0, 0), FILTER_NONE)

NextWinding == ItemWinding \/ Flush

SpecWinding == Init /\ [][NextWinding]_vars

\* The same program driven with every filter type.
ItemFilters == ItemOf(FilterRequests, Geoms, Clips)

NextFilters == ItemFilters \/ Flush

SpecFilters == Init /\ [][NextFilters]_vars

\* ------------------------------------------------------------------------
\* Observations used by the properties
\* ------------------------------------------------------------------------

\* The last operation was a draw_textures_item call with a non-zero clip.
Accepted == ev.op = "item" /\ ev.clip.width # 0 /\ ev.clip.height # 0

\* The last operation was a draw_textures_item call with a zero clip.
Rejected == ev.op = "item" /\ (ev.clip.width = 0 \/ ev.clip.height = 0)

\* The positions in gl of the draw calls of the last operation.
DrawIndices == {i \in 1..Len(gl) : gl[i].fn = "glDrawArrays"}

\* The last operation issued a draw call.
Drew == DrawIndices # {}

\* The last operation flushed a non-empty buffer: it reset bufSize to 0,
\* with or without a draw call.
FlushedBatch == ev.flushes > 0 /\ ev.pre > 0

\* The number of quads the buffer has room for.
Capacity == MAX_BUFFER_SIZE \div 2

\* The two slots an accepted request with state tuple t and geometry g
\* appends.
QuadOf(t, g) ==
  LET tc == TexCoords(g.src, g.src_width, g.src_height)
      p == matrix_3x3_multiply(g.model_view, g.dest)
  IN <<bufobj(t, 1, FirstTriangle(tc, p)), bufobj(t, 2, SecondTriangle(tc, p))>>

\* ------------------------------------------------------------------------
\* C1
\* ------------------------------------------------------------------------

\* C1 as stated: between two consecutive accepted draw_textures_item calls
\* that carry the identical state tuple no flush occurs (no draw call, no
\* reset of bufSize), whatever the number of quads already queued.
C1_NoFlushWhateverLength ==
  [][(Accepted /\ Accepted' /\ ev'.req = ev.req)
       => (~FlushedBatch' /\ gl' = <<>>)]_vars

\* C1 amended: between two consecutive accepted draw_textures_item calls
\* that carry the identical state tuple no flush occurs as long as
\* bufSize + 2 < MAX_BUFFER_SIZE when the second call is made: the second
\* quad is appended to the same batch, without any GL call.
C1_NoFlushBelowThreshold ==
  [][(Accepted /\ Accepted' /\ ev'.req = ev.req /\ bufSize + 2 < MAX_BUFFER_SIZE)
       => (ev'.flushes = 0 /\ gl' = <<>> /\ bufSize' = bufSize + 2
           /\ buffer' = buffer \o QuadOf(ev'.req, ev'.geom))]_vars

\* Three quads of one state tuple queued in a row without a flush.
C1_Witness ==
  /\ Accepted /\ ev.flushes = 0 /\ bufSize = 6
  /\ \A i \in 1..Len(buffer) : buffer[i].req = ev.req

\* ------------------------------------------------------------------------
\* C2
\* ------------------------------------------------------------------------

\* C2: an accepted draw_textures_item call whose state tuple differs from
\* the batch's active state in any field calls draw_textures_flush exactly
\* once, before appending: the draw call (if any) covers the slots queued
\* before the call and only quads of the previous state, and after the call
\* the buffer holds the new quad alone (bufSize = 2).
C2_FlushOnceOnStateChange ==
  (Accepted /\ ev.differs) =>
    /\ ev.flushes = 1
    /\ bufSize = 2
    /\ buffer = QuadOf(ev.req, ev.geom)
    /\ \A i \in DrawIndices : gl[i].args[3] = 3 * ev.pre
    /\ Len(ev.drawn) \in {0, ev.pre}
    /\ \A i \in 1..Len(ev.drawn) : ev.drawn[i].req = ev.was

\* A request that differs from a drawn, non-empty batch in the alpha
\* component of the filter colour alone.
C2_Witness ==
  /\ Accepted /\ ev.differs /\ ev.pre > 0 /\ Drew
  /\ ev.req.name = ev.was.name
  /\ ev.req.opacity = ev.was.opacity
  /\ ev.req.composite_op = ev.was.composite_op
  /\ ev.req.filter_type = ev.was.filter_type
  /\ ev.req.filter_color.r = ev.was.filter_color.r
  /\ ev.req.filter_color.g = ev.was.filter_color.g
  /\ ev.req.filter_color.b = ev.was.filter_color.b
  /\ ev.req.filter_color.a # ev.was.filter_color.a

\* ------------------------------------------------------------------------
\* C3
\* ------------------------------------------------------------------------

\* C3 as stated: when an accepted request makes the accumulator draw the
\* queued batch, so that the new quad goes to a later draw call, either the
\* GPU configuration a flush issues for the two state tuples differs or the
\* buffer has no room for the new quad.
C3_SplitOnlyWhenUnavoidable ==
  (Accepted /\ FlushedBatch /\ ev.was.opacity > 0 /\ ev.req.opacity > 0) =>
    \/ GpuConfig(use_single_shader, ev.was) # GpuConfig(use_single_shader, ev.req)
    \/ ev.pre + 2 > MAX_BUFFER_SIZE

\* C3 amended: when an accepted request makes the accumulator flush the
\* queued batch, either some field of the state tuple differs between the
\* batch and the request (whether or not the GPU configuration does), or
\* bufSize + 2 >= MAX_BUFFER_SIZE held when the request was made.
C3_SplitOnTupleOrThreshold ==
  (Accepted /\ FlushedBatch) =>
    \/ ev.was # ev.req
    \/ ev.pre + 2 >= MAX_BUFFER_SIZE

\* A drawn batch split from the next quad although both get the same GPU
\* configuration and the buffer had room.
C3_Witness ==
  /\ Accepted /\ FlushedBatch /\ Drew
  /\ ev.req.opacity > 0
  /\ ev.was # ev.req
  /\ ev.pre + 2 < MAX_BUFFER_SIZE
  /\ GpuConfig(use_single_shader, ev.was) = GpuConfig(use_single_shader, ev.req)

\* ------------------------------------------------------------------------
\* C4
\* ------------------------------------------------------------------------

\* The state tuple the flush of the last operation ran under.
FlushTuple == IF ev.op = "item" THEN ev.was ELSE ActiveTuple

\* C4: every quad held in buffer[0..bufSize-1] was submitted with exactly
\* the active state tuple, and every slot a draw call reads was submitted
\* with the texture the draw call binds, the blend factors it sets and the
\* state tuple the flush ran under.
C4_BatchHomogeneous ==
  /\ Len(buffer) = bufSize
  /\ \A i \in 1..bufSize : buffer[i].req = ActiveTuple
  /\ \A i \in 1..Len(ev.drawn) :
       /\ ev.drawn[i].req = FlushTuple
       /\ \E j \in 1..Len(gl) :
            gl[j] = GLCall("glBindTexture", <<"GL_TEXTURE_2D", ev.drawn[i].req.name>>)
       /\ \E j \in 1..Len(gl) :
            gl[j] = GLCall("glBlendFunc", BlendFactors(ev.drawn[i].req.composite_op))

\* A draw call triggered by a state change that covers a batch of two quads.
C4_Witness ==
  /\ Accepted /\ ev.differs /\ Drew /\ Len(ev.drawn) = 4 /\ bufSize = 2

\* ------------------------------------------------------------------------
\* C5
\* ------------------------------------------------------------------------

\* C5: a draw_textures_item call whose clip has width 0 or height 0 changes
\* neither bufSize, the buffer nor any last-known state field, calls no
\* flush and issues no GL call.
C5_ZeroClipDropped ==
  [][Rejected' => (UNCHANGED prog /\ gl' = <<>> /\ ev'.flushes = 0)]_vars

\* A request of zero clip width (height non-zero) whose state tuple differs
\* from the active one, made with the buffer at its capacity threshold.
C5_Witness ==
  /\ Rejected /\ ev.clip.width = 0 /\ ev.clip.height # 0
  /\ ev.differs
  /\ bufSize > 0 /\ bufSize + 2 >= MAX_BUFFER_SIZE
  /\ gl = <<>>

\* ------------------------------------------------------------------------
\* C6
\* ------------------------------------------------------------------------

\* C6: bufSize is even and within 0..MAX_BUFFER_SIZE, and every accepted
\* request writes its two slots o = buffer + bufSize - 2 and o + 1 at
\* indices below MAX_BUFFER_SIZE.
C6_BufferLength ==
  /\ bufSize % 2 = 0
  /\ 0 <= bufSize /\ bufSize <= MAX_BUFFER_SIZE
  /\ Accepted => (ev.o = bufSize - 2 /\ 0 <= ev.o /\ ev.o + 1 < MAX_BUFFER_SIZE)

\* The fullest buffer: a quad appended at the highest slots ever written.
C6_Witness ==
  /\ Accepted /\ ev.flushes = 0
  /\ bufSize = MAX_BUFFER_SIZE - 2 /\ ev.o = MAX_BUFFER_SIZE - 4

\* ------------------------------------------------------------------------
\* C7
\* ------------------------------------------------------------------------

\* C7: when the buffer holds k quads, all submitted with the state tuple of
\* the accepted request now made (k = 0: an empty buffer), then for
\* k < Capacity - 1 the request flushes nothing and bufSize grows by 2, and
\* for k = Capacity - 1 the batch is flushed before the append and
\* bufSize = 2 afterwards, the buffer holding the new quad alone.
C7_FlushAtCapacity ==
  [][(/\ Accepted'
      /\ Len(buffer) = bufSize
      /\ \A i \in 1..bufSize : buffer[i].req = ev'.req)
       => /\ (bufSize \div 2 < Capacity - 1 =>
                /\ ~FlushedBatch' /\ gl' = <<>>
                /\ bufSize' = bufSize + 2)
          /\ (bufSize \div 2 = Capacity - 1 =>
                /\ FlushedBatch' /\ ev'.flushes = 1
                /\ Len(ev'.drawn) \in {0, bufSize}
                /\ bufSize' = 2
                /\ buffer' = QuadOf(ev'.req, ev'.geom))]_vars

\* The request that follows Capacity - 1 quads of its own state tuple: the
\* batch was drawn and the buffer holds the one new quad.
C7_Witness ==
  /\ Accepted /\ ~ev.differs
  /\ ev.pre = 2 * (Capacity - 1)
  /\ ev.flushes = 1 /\ Drew /\ Len(ev.drawn) = 2 * (Capacity - 1)
  /\ bufSize = 2

\* ------------------------------------------------------------------------
\* C8
\* ------------------------------------------------------------------------

\* C8 as stated: with an unchanged state tuple an accepted request flushes
\* only when fewer than two free slots remain (bufSize + 2 >
\* MAX_BUFFER_SIZE); while two free slots remain it appends without a flush.
C8_FlushOnlyWhenNoRoom ==
  (Accepted /\ ~ev.differs) =>
    /\ ev.flushes > 0 => ev.pre + 2 > MAX_BUFFER_SIZE
    /\ ev.pre + 2 <= MAX_BUFFER_SIZE => (ev.flushes = 0 /\ bufSize = ev.pre + 2)

\* C8 amended: with an unchanged state tuple an accepted request flushes
\* exactly when bufSize + 2 >= MAX_BUFFER_SIZE, which includes the case of
\* exactly two free slots; it appends without a flush only while more than
\* two free slots remain.
C8_FlushAtThreshold ==
  (Accepted /\ ~ev.differs) =>
    /\ ev.flushes > 0 <=> ev.pre + 2 >= MAX_BUFFER_SIZE
    /\ ev.pre + 2 < MAX_BUFFER_SIZE => (gl = <<>> /\ bufSize = ev.pre + 2)

\* A capacity flush made while exactly two free slots remained.
C8_Witness ==
  /\ Accepted /\ ~ev.differs /\ ev.flushes = 1
  /\ ev.pre + 2 = MAX_BUFFER_SIZE

\* ------------------------------------------------------------------------
\* C9
\* ------------------------------------------------------------------------

\* C9: every glDrawArrays of an operation has the vertex count 3 * bufSize
\* of a bufSize > 0 (bufSize as at the entry of the flush).
C9_NoEmptyDraw ==
  \A i \in DrawIndices :
    /\ gl[i].args[3] > 0
    /\ ev.pre > 0
    /\ gl[i].args[3] = 3 * ev.pre

\* An explicit flush that drew a single quad.
C9_Witness ==
  /\ ev.op = "flush" /\ Drew /\ ev.pre = 2
  /\ gl[Len(gl)] = GLCall("glDrawArrays", <<"GL_TRIANGLES", 0, 6>>)

\* ------------------------------------------------------------------------
\* C10
\* ------------------------------------------------------------------------

\* C10: draw_textures_flush leaves the buffer empty, and a call made on an
\* empty buffer, or directly after another draw_textures_flush call, issues
\* no GL call and changes neither bufSize nor any last-known state field.
C10_FlushIdempotent ==
  [][(ev'.op = "flush") =>
       /\ bufSize' = 0
       /\ (bufSize = 0 \/ ev.op = "flush") => (gl' = <<>> /\ UNCHANGED prog)]_vars

\* The second of two flushes in a row, under a batch opacity <= 0.
C10_Witness ==
  /\ ev.op = "flush" /\ ev.again /\ ev.pre = 0
  /\ lastOpacity <= 0 /\ lastName \in Names
  /\ gl = <<>> /\ bufSize = 0

\* ------------------------------------------------------------------------
\* C11
\* ------------------------------------------------------------------------

\* C11: a flush (explicit or inside draw_textures_item) of a non-empty
\* batch whose opacity is <= 0 issues no GL call at all (no draw call, no
\* texture bind, no blend function, no shader bind, no uniform write) and
\* resets bufSize; none of the batch's slots stays in the buffer, so no
\* later flush can draw them.
C11_TransparentBatchDiscarded ==
  [][(ev'.flushes = 1 /\ bufSize > 0 /\ lastOpacity <= 0) =>
       /\ gl' = <<>>
       /\ ev'.drawn = <<>>
       /\ bufSize' = (IF ev'.op = "item" THEN 2 ELSE 0)
       /\ buffer' = (IF ev'.op = "item" THEN QuadOf(ev'.req, ev'.geom) ELSE <<>>)]_vars

\* An explicit flush of two queued quads of opacity 0.
C11_Witness ==
  /\ ev.op = "flush" /\ ev.pre = 4 /\ lastOpacity = 0
  /\ gl = <<>> /\ bufSize = 0 /\ buffer = <<>>

\* ------------------------------------------------------------------------
\* C12
\* ------------------------------------------------------------------------

\* C12: a flush of a non-empty batch with opacity > 0 issues exactly one
\* draw call, the last GL call of the flush: glDrawArrays(GL_TRIANGLES, 0,
\* 3 * bufSize) for bufSize as at flush entry, i.e. 6 vertices per queued
\* quad; it reads every queued slot, and an explicit flush ends with
\* bufSize = 0.
C12_OneDrawCoversBatch ==
  [][(ev'.flushes = 1 /\ bufSize > 0 /\ lastOpacity > 0) =>
       /\ Cardinality({i \in 1..Len(gl') : gl'[i].fn = "glDrawArrays"}) = 1
       /\ gl'[Len(gl')] = GLCall("glDrawArrays", <<"GL_TRIANGLES", 0, 3 * bufSize>>)
       /\ 3 * bufSize = 6 * (Len(buffer) \div 2)
       /\ ev'.drawn = buffer
       /\ ev'.op = "flush" => (bufSize' = 0 /\ buffer' = <<>>)]_vars

\* An explicit flush that drew three queued quads with 18 vertices.
C12_Witness ==
  /\ ev.op = "flush" /\ ev.pre = 6 /\ lastOpacity > 0
  /\ gl[Len(gl)] = GLCall("glDrawArrays", <<"GL_TRIANGLES", 0, 18>>)
  /\ Len(ev.drawn) = 6 /\ bufSize = 0

\* ------------------------------------------------------------------------
\* C13
\* ------------------------------------------------------------------------

\* C13: draw_textures_flush leaves lastName, lastOpacity, last_composite_op,
\* last_filter_color and last_filter_type as they were, on every path; an
\* accepted request that follows an explicit flush with the state tuple that
\* was active before it flushes nothing and starts the batch at bufSize = 2.
C13_FlushKeepsLastState ==
  [][/\ (ev'.op = "flush") =>
          UNCHANGED <<lastName, lastOpacity, last_composite_op,
                      last_filter_color, last_filter_type>>
     /\ (ev.op = "flush" /\ Accepted' /\ ev'.req = ActiveTuple) =>
          (ev'.flushes = 0 /\ gl' = <<>> /\ bufSize' = 2
             /\ buffer' = QuadOf(ev'.req, ev'.geom))]_vars

\* A request accepted without a flush directly after an explicit flush that
\* drew a batch of the same state.
C13_Witness ==
  /\ Accepted /\ ev.flushes = 0 /\ ev.pre = 0 /\ bufSize = 2
  /\ ~ev.differs /\ ev.req.name \in Names

\* ------------------------------------------------------------------------
\* C16
\* ------------------------------------------------------------------------

\* C16: a flush triggered by draw_textures_item runs under the previous
\* state: its GL calls bind the previous texture and use the previous
\* opacity, composite op, filter colour and filter type; after the call all
\* five last-known fields hold the request's values, also when the flush
\* found the buffer empty.
C16_FlushBeforeAdopt ==
  (Accepted /\ ev.flushes = 1) =>
    /\ ActiveTuple = ev.req
    /\ Drew =>
         /\ ev.was.opacity > 0
         /\ gl[1] = GLCall("glBlendFunc", BlendFactors(ev.was.composite_op))
         /\ \E i \in 1..Len(gl) :
              gl[i] = GLCall("glBindTexture", <<"GL_TEXTURE_2D", ev.was.name>>)
         /\ \A i \in 1..Len(gl) :
              gl[i].fn = "glBindTexture" => gl[i].args[2] = ev.was.name
         /\ SubSeq(gl, 2, Len(gl) - 9) =
              ShaderCalls(use_single_shader, ev.was.opacity,
                          ev.was.filter_color, ev.was.filter_type)
    /\ (~Drew /\ ev.pre > 0) => ev.was.opacity <= 0

\* A flush that drew the previous batch although the request differs from
\* it in texture, composite op and filter type and is fully transparent.
C16_Witness ==
  /\ Accepted /\ ev.flushes = 1 /\ Drew
  /\ ev.req.name # ev.was.name
  /\ ev.req.opacity = 0
  /\ ev.req.composite_op # ev.was.composite_op
  /\ ev.req.filter_type # ev.was.filter_type
  /\ ActiveTuple = ev.req

\* ------------------------------------------------------------------------
\* C14
\* ------------------------------------------------------------------------

\* The table of composite operations and blend factors as the claim gives
\* it.
C14_Table(op) ==
  CASE op = source_atop -> <<"GL_DST_ALPHA", "GL_ONE_MINUS_SRC_ALPHA">>
    [] op = source_in -> <<"GL_DST_ALPHA", "GL_ZERO">>
    [] op = source_out -> <<"GL_ONE_MINUS_DST_ALPHA", "GL_ZERO">>
    [] op = source_over -> <<"GL_ONE", "GL_ONE_MINUS_SRC_ALPHA">>
    [] op = destination_atop -> <<"GL_DST_ALPHA", "GL_SRC_ALPHA">>
    [] op = destination_in -> <<"GL_ZERO", "GL_SRC_ALPHA">>
    [] op = destination_out -> <<"GL_ONE_MINUS_SRC_ALPHA", "GL_ONE_MINUS_SRC_ALPHA">>
    [] op = destination_over -> <<"GL_DST_ALPHA", "GL_SRC_ALPHA">>
    [] op \in {lighter, x_or, copy, unrecognized_op} ->
         <<"GL_ONE", "GL_ONE_MINUS_SRC_ALPHA">>

\* C14: a drawing flush calls glBlendFunc exactly once, first of all, with
\* the pair the table gives for the composite operation of the batch it
\* draws (the last_composite_op at flush entry, which every drawn slot was
\* submitted with).
C14_BlendTable ==
  Drew =>
    /\ gl[1] = GLCall("glBlendFunc", C14_Table(FlushTuple.composite_op))
    /\ Cardinality({i \in 1..Len(gl) : gl[i].fn = "glBlendFunc"}) = 1
    /\ \A i \in 1..Len(ev.drawn) :
         ev.drawn[i].req.composite_op = FlushTuple.composite_op

\* A destination_over batch drawn because a source_in request followed it.
C14_Witness ==
  /\ Accepted /\ Drew
  /\ ev.was.composite_op = destination_over
  /\ ev.req.composite_op = source_in
  /\ gl[1] = GLCall("glBlendFunc", <<"GL_DST_ALPHA", "GL_SRC_ALPHA">>)

\* ------------------------------------------------------------------------
\* C15
\* ------------------------------------------------------------------------

\* The calls between glBlendFunc and the eight texture calls that precede
\* glDrawArrays: the shader selection of a drawing flush.
ShaderSection == SubSeq(gl, 2, Len(gl) - 9)

\* C15: a drawing flush of a batch with opacity o, filter colour (r,g,b,a)
\* and one of the three filter kinds binds the primary shader with
\* draw-color (o,o,o,o) when use_single_shader is set or the kind is none,
\* the linear-add shader with add-color (r*a, g*a, b*a, 0) and draw-color
\* (o,o,o,o) for additive-linear, and the primary shader with draw-color
\* (r*o, g*o, b*o, o) for multiply.
C15_ShaderByFilter ==
  LET o == FlushTuple.opacity
      c == FlushTuple.filter_color
      t == FlushTuple.filter_type
      plain == <<GLCall("tealeaf_shaders_bind", <<PRIMARY_SHADER>>),
                 GLCall("glUniform4f", <<"draw_color", o, o, o, o>>)>>
  IN Drew =>
       /\ use_single_shader => ShaderSection = plain
       /\ (~use_single_shader /\ t = FILTER_NONE) => ShaderSection = plain
       /\ (~use_single_shader /\ t = FILTER_LINEAR_ADD) =>
            ShaderSection =
              <<GLCall("tealeaf_shaders_bind", <<LINEAR_ADD_SHADER>>),
                GLCall("glUniform4f",
                       <<"add_color", c.r * c.a, c.g * c.a, c.b * c.a, 0>>),
                GLCall("glUniform4f", <<"draw_color", o, o, o, o>>)>>
       /\ (~use_single_shader /\ t = FILTER_MULTIPLY) =>
            ShaderSection =
              <<GLCall("tealeaf_shaders_bind", <<PRIMARY_SHADER>>),
                GLCall("glUniform4f",
                       <<"draw_color", c.r * o, c.g * o, c.b * o, o>>)>>

\* An additive-linear batch of opacity 3 and colour (2,3,5,7) drawn with
\* add-color (14,21,35,0), in a build without use_single_shader.
C15_Witness ==
  /\ Drew /\ ~use_single_shader
  /\ FlushTuple.filter_type = FILTER_LINEAR_ADD
  /\ FlushTuple.opacity = 3
  /\ gl[3] = GLCall("glUniform4f", <<"add_color", 14, 21, 35, 0>>)
  /\ gl[4] = GLCall("glUniform4f", <<"draw_color", 3, 3, 3, 3>>)

\* ------------------------------------------------------------------------
\* C17
\* ------------------------------------------------------------------------

\* C17: whatever the filter type of the batch, a flush that issues a draw
\* call binds a shader and then sets the draw-color uniform with the batch
\* opacity as alpha before the draw call, within the calls of that flush.
C17_DrawBindsShader ==
  Drew =>
    \E i, j, k \in 1..Len(gl) :
      /\ i < j /\ j < k
      /\ gl[i].fn = "tealeaf_shaders_bind"
      /\ gl[j].fn = "glUniform4f"
      /\ gl[j].args[1] = "draw_color"
      /\ gl[j].args[5] = FlushTuple.opacity
      /\ gl[k].fn = "glDrawArrays"

\* A draw call of a batch of another filter type, issued with no shader
\* bound and no uniform set by its flush.
C17_Witness ==
  /\ Drew /\ ~use_single_shader
  /\ FlushTuple.filter_type = FILTER_OTHER
  /\ ShaderSection = <<>>
  /\ Len(gl) = 10

\* ------------------------------------------------------------------------
\* C18
\* ------------------------------------------------------------------------

\* C18: every accepted request appends its quad as the two slots after the
\* quads accepted since the last reset (slots 2k and 2k+1 for the k-th, from
\* 0) and leaves those before it as they were; a rejected request changes
\* nothing; a flush of a non-empty batch of opacity > 0 issues one draw call
\* that reads exactly the buffered quads in submission order; draw calls
\* happen nowhere else; and after a flush none of the flushed slots is left
\* in the buffer, so that no quad is drawn twice or lost.
C18_QuadsConserved ==
  [][/\ Accepted' =>
          /\ ev'.o = (IF ev'.flushes = 1 THEN 0 ELSE bufSize)
          /\ ev'.o % 2 = 0
          /\ bufSize' = ev'.o + 2
          /\ Len(buffer') = bufSize'
          /\ SubSeq(buffer', 1, ev'.o) =
               (IF ev'.flushes = 1 THEN <<>> ELSE buffer)
          /\ SubSeq(buffer', ev'.o + 1, ev'.o + 2) = QuadOf(ev'.req, ev'.geom)
     /\ Rejected' => (buffer' = buffer /\ bufSize' = bufSize /\ gl' = <<>>)
     /\ (ev'.flushes = 1 /\ bufSize > 0 /\ lastOpacity > 0) =>
          /\ Cardinality({i \in 1..Len(gl') : gl'[i].fn = "glDrawArrays"}) = 1
          /\ ev'.drawn = buffer
     /\ (ev'.flushes = 0 \/ bufSize = 0 \/ lastOpacity <= 0) =>
          (gl' = <<>> /\ ev'.drawn = <<>>)
     /\ (ev'.op = "flush") => (buffer' = <<>> /\ bufSize' = 0)]_vars

\* An explicit flush whose draw call read three quads of three different
\* geometries in the order they were submitted.
C18_Witness ==
  /\ ev.op = "flush" /\ Drew /\ bufSize = 0
  /\ ev.drawn = QuadOf(ActiveTuple, Geom1) \o QuadOf(ActiveTuple, Geom0)
                  \o QuadOf(ActiveTuple, Geom2)

\* ------------------------------------------------------------------------
\* C19
\* ------------------------------------------------------------------------

\* The float f, kept as a fraction, is the quotient n / d.
IsQuotient(f, n, d) == f[2] > 0 /\ f[1] * d = n * f[2]

\* The three vertices of a slot, each as <<x, y, s, t>>.
VerticesOf(v) ==
  {<<v.destX1, v.destY1, v.srcX1, v.srcY1>>,
   <<v.destX2, v.destY2, v.srcX2, v.srcY2>>,
   <<v.destX3, v.destY3, v.srcX3, v.srcY3>>}

\* C19: the two slots of the quad just accepted hold the texture
\* coordinates (sMin,tMax),(sMax,tMax),(sMin,tMin) and (sMax,tMax),
\* (sMax,tMin),(sMin,tMin), with sMin = src.x/src_width, tMin =
\* src.y/src_height, sMax = (src.x+src.width)/src_width and tMax =
\* (src.y+src.height)/src_height (1/10, 1/10, 2/5, 3/10 for (10,20,30,40) on
\* 100 x 200), at the positions (p4,p3,p1) and (p3,p2,p1) of the transformed
\* corners; a corner has the same texture coordinate in both triangles, which
\* share exactly two vertices and together use the four corners.
C19_QuadVertices ==
  Accepted =>
    LET g == ev.geom
        o == buffer[ev.o + 1].v
        o2 == buffer[ev.o + 2].v
        p == matrix_3x3_multiply(g.model_view, g.dest)
        sMin(f) == IsQuotient(f, g.src.x, g.src_width)
        tMin(f) == IsQuotient(f, g.src.y, g.src_height)
        sMax(f) == IsQuotient(f, g.src.x + g.src.width, g.src_width)
        tMax(f) == IsQuotient(f, g.src.y + g.src.height, g.src_height)
    IN /\ sMin(o.srcX1) /\ tMax(o.srcY1)
       /\ sMax(o.srcX2) /\ tMax(o.srcY2)
       /\ sMin(o.srcX3) /\ tMin(o.srcY3)
       /\ sMax(o2.srcX1) /\ tMax(o2.srcY1)
       /\ sMax(o2.srcX2) /\ tMin(o2.srcY2)
       /\ sMin(o2.srcX3) /\ tMin(o2.srcY3)
       /\ g = Geom0 =>
            /\ o.srcX1 = <<1, 10>> /\ o.srcY3 = <<1, 10>>
            /\ o.srcX2 = <<2, 5>> /\ o.srcY1 = <<3, 10>>
       /\ <<o.destX1, o.destY1>> = <<p.x4, p.y4>>
       /\ <<o.destX2, o.destY2>> = <<p.x3, p.y3>>
       /\ <<o.destX3, o.destY3>> = <<p.x1, p.y1>>
       /\ <<o2.destX1, o2.destY1>> = <<p.x3, p.y3>>
       /\ <<o2.destX2, o2.destY2>> = <<p.x2, p.y2>>
       /\ <<o2.destX3, o2.destY3>> = <<p.x1, p.y1>>
       /\ \A a \in VerticesOf(o), b \in VerticesOf(o2) :
            (a[1] = b[1] /\ a[2] = b[2]) => a = b
       /\ Cardinality(VerticesOf(o) \cap VerticesOf(o2)) = 2
       /\ {<<a[1], a[2]>> : a \in VerticesOf(o) \cup VerticesOf(o2)} =
            {<<p.x1, p.y1>>, <<p.x2, p.y2>>, <<p.x3, p.y3>>, <<p.x4, p.y4>>}
       /\ Cardinality(VerticesOf(o) \cup VerticesOf(o2)) = 4

\* The quad of the source rectangle (10,20,30,40) of a 100 x 200 texture,
\* appended after a quad of another geometry.
C19_Witness ==
  /\ Accepted /\ ev.o = 2 /\ ev.geom = Geom0
  /\ buffer[1] = QuadOf(ev.req, Geom1)[1]
  /\ buffer[3].v.srcX1 = <<1, 10>> /\ buffer[3].v.srcY1 = <<3, 10>>
  /\ buffer[4].v.srcX2 = <<2, 5>> /\ buffer[4].v.srcY2 = <<1, 10>>

\* ------------------------------------------------------------------------
\* C20
\* ------------------------------------------------------------------------

\* Twice the signed area of the triangle of a slot, in the order of its
\* three vertices: positive for one winding, negative for the other.
SignedArea(v) ==
  (v.destX2 - v.destX1) * (v.destY3 - v.destY1)
    - (v.destX3 - v.destX1) * (v.destY2 - v.destY1)

Sign(n) == IF n > 0 THEN 1 ELSE IF n < 0 THEN -1 ELSE 0

\* C20: with the four corners returned in cyclic order around the
\* destination rectangle, the two triangles of every buffered quad, drawn
\* under a non-degenerate affine transform, have signed areas of the same
\* sign, neither of them zero.
C20_ConsistentWinding ==
  \A k \in 1..(Len(buffer) \div 2) :
    /\ Sign(SignedArea(buffer[2 * k - 1].v)) = Sign(SignedArea(buffer[2 * k].v))
    /\ Sign(SignedArea(buffer[2 * k - 1].v)) # 0

\* A quad under the orientation-reversing transform (1 1 / 1 -1), buffered
\* after another quad: both triangles have signed area 24 (twice 12).
C20_Witness ==
  /\ Accepted /\ ev.o = 2
  /\ ev.geom.model_view = matrix_3x3(1, 1, 1, 1, -1, -1)
  /\ Det(ev.geom.model_view) = -2
  /\ SignedArea(buffer[3].v) = 24
  /\ SignedArea(buffer[4].v) = 24

====
